---- MODULE Spec2Model ----
(***************************************************************************)
(* A model of anyio/_networking.py: BaseSocket (the non-blocking socket     *)
(* adapter), SocketStream (exact-length and delimiter-framed reads, TLS     *)
(* upgrade), SocketStreamServer.accept and the datagram primitives.         *)
(*                                                                         *)
(* One task runs one operation.  Every await of the source is a step        *)
(* boundary: between two steps the environment may deliver bytes, deliver   *)
(* the peer's end-of-stream, queue a connection or cancel the task.         *)
(***************************************************************************)
EXTENDS Integers, Sequences, FiniteSets, TLC

\* Bounds of the model.
MaxStream == 3      \* longest content the peer sends
MaxDelim == 3       \* longest delimiter
MaxSize == 3        \* largest max_size / nbytes / size argument
MaxData == 3        \* longest payload handed to send, sendto, sendall
MaxChunkDelim == 2  \* longest delimiter handed to receive_delimited_chunks
MaxConns == 2       \* most connections accept_connections is followed through

Byte == {0, 1}

VARIABLES
    op,             \* the operation the task called
    prev,           \* the operation that completed before it ("none" if none)
    pc,             \* position of the task inside the operation
    ret,            \* where the innermost BaseSocket call returns to
    cancelled,      \* the scheduler has cancelled the task
    handle,         \* self._raw_socket: "none" (not yet accepted), "plain", "tls"
    plain_socket,   \* start_tls: the local plain_socket
    released,       \* the OS handle has been closed
    notified,       \* the scheduler has been told of the close
    backlog,        \* connections queued on a listening socket
    ssl_context,    \* SocketStreamServer._ssl_context is set
    stream,         \* everything the peer sends, in order
    rcvq,           \* the socket's receive queue (arrived, unread)
    net,            \* bytes of stream not yet arrived
    fin,            \* the peer's end-of-stream has arrived
    taken,          \* all bytes the consuming reads removed, in order
    wire,           \* all bytes the OS accepted for sending, in order
    preloaded,      \* the whole stream was in the receive queue at call time
    size,           \* size argument of the innermost socket call
    flags,          \* flags argument of the innermost recv
    rv,             \* bytes returned by the innermost recv/recvfrom
    bytes_read,     \* count returned by the innermost recv_into/recvfrom_into
    sig,            \* last transient signal raised by the OS/TLS call
    data,           \* sendall/send/sendto: payload; receive_until: last peek
    to_send,        \* sendall: bytes still to send
    sent,           \* count returned by the last successful send
    buf,            \* receive_exactly / receive_until: buf
    view,           \* receive_exactly: start of view inside buf
    nbytes,         \* receive_exactly: bytes still to read
    delimiter,      \* receive_until: delimiter
    max_size,       \* receive_until: max_size
    offset,         \* receive_until: offset
    index,          \* receive_until: index
    peeks,          \* receive_until: number of peeks that returned data
    result,         \* bytes returned by the operation
    exc,            \* exception the operation raised ("none" type if none)
    early,          \* the task was already cancelled when it called the operation
    yielded,        \* receive_chunks / receive_delimited_chunks: chunks yielded so far
    conns,          \* accept_connections: streams yielded so far
    listener_closed,\* accept_connections: self._socket.closed
    closed_handle,  \* the handle whose close() released the OS handle ("none" before)
    error           \* connect: the SO_ERROR code it read (-1 before)

ctlv == <<op, prev, ret, cancelled, early>>
sockv == <<handle, plain_socket, released, notified, backlog, ssl_context>>
netv == <<stream, rcvq, net, fin, taken, wire, preloaded>>
callv == <<size, flags, rv, bytes_read, sig>>
sendv == <<data, to_send, sent>>
readv == <<buf, view, nbytes, delimiter, max_size, offset, index, peeks>>
extv == <<yielded, conns, listener_closed, closed_handle, error>>
vars == <<op, prev, pc, ret, cancelled, handle, plain_socket, released, notified,
          backlog, ssl_context, stream, rcvq, net, fin, taken, wire, preloaded,
          size, flags, rv, bytes_read, sig, data, to_send, sent, buf, view,
          nbytes, delimiter, max_size, offset, index, peeks, result, exc, early,
          yielded, conns, listener_closed, closed_handle, error>>

----------------------------------------------------------------------------
\* Byte strings.

Min(a, b) == IF a < b THEN a ELSE b

SeqsUpTo(S, n) == UNION {[1..k -> S] : k \in 0..n}

\* s[:n]
Take(s, n) == SubSeq(s, 1, Min(n, Len(s)))

\* s[n:]
Drop(s, n) == IF n >= Len(s) THEN <<>> ELSE SubSeq(s, n + 1, Len(s))

\* d occurs in b at 0-based position i
OccursAt(b, d, i) == i >= 0 /\ i + Len(d) <= Len(b) /\ SubSeq(b, i + 1, i + Len(d)) = d

\* bytes.find(d, start): a negative start counts from the end of b
find(b, d, start) ==
    LET s == IF start < 0 THEN (IF start + Len(b) < 0 THEN 0 ELSE start + Len(b)) ELSE start
        hits == {i \in s..(Len(b) - Len(d)) : OccursAt(b, d, i)}
    IN IF hits = {} THEN -1 ELSE CHOOSE i \in hits : \A j \in hits : i <= j

Exc(t, d) == [type |-> t, data |-> d]
NoExc == Exc("none", <<>>)

----------------------------------------------------------------------------
\* The operations a behaviour can run, and their first position.

StreamReadOps == {"receive_some", "receive_exactly", "receive_until", "receive_chunks",
                  "receive_delimited_chunks"}
DatagramReadOps == {"recvfrom", "recvfrom_into"}
SendOps == {"sendall", "send", "sendto"}
AcceptOps == {"accept", "server_accept", "accept_connections"}
Ops == StreamReadOps \cup DatagramReadOps \cup SendOps \cup AcceptOps
       \cup {"start_tls", "close", "connect"}

Entry(o) == CASE o = "accept" -> "accept_check"
              [] o = "start_tls" -> "tls_wrap"
              [] o = "close" -> "close_notify"
              [] o = "connect" -> "connect_check"
              [] OTHER -> "start"

\* MSG_PEEK is a flag of the plain socket; the datagram sockets are plain.
Handles(o) == CASE o \in AcceptOps -> {"none"}
                [] o \in {"receive_until", "receive_delimited_chunks", "start_tls", "sendto",
                          "connect"} \cup DatagramReadOps
                    -> {"plain"}
                [] OTHER -> {"plain", "tls"}

Init ==
    /\ op \in Ops
    /\ prev = "none"
    /\ pc = Entry(op)
    /\ ret = "done"
    /\ cancelled \in BOOLEAN
    /\ early = cancelled
    /\ handle \in Handles(op)
    /\ plain_socket = "none"
    /\ released = FALSE
    /\ notified = FALSE
    /\ backlog \in (IF op \in AcceptOps THEN {0, 1} ELSE {0})
    /\ ssl_context \in (IF op \in {"server_accept", "accept_connections"} THEN BOOLEAN
                        ELSE {FALSE})
    /\ stream \in (IF op \in StreamReadOps \cup DatagramReadOps
                   THEN SeqsUpTo(Byte, MaxStream) ELSE {<<>>})
    /\ preloaded \in (IF op \in {"receive_some", "receive_exactly", "receive_until"}
                      THEN BOOLEAN ELSE {FALSE})
    /\ rcvq = (IF preloaded THEN stream ELSE <<>>)
    /\ net = (IF preloaded THEN <<>> ELSE stream)
    /\ fin = (op \notin StreamReadOps)
    /\ taken = <<>>
    /\ wire = <<>>
    /\ size = 0
    /\ flags = "none"
    /\ rv = <<>>
    /\ bytes_read = 0
    /\ sig = "none"
    /\ data = <<>>
    /\ to_send = 0
    /\ sent = 0
    /\ buf = <<>>
    /\ view = 0
    /\ nbytes = 0
    /\ delimiter = <<>>
    /\ max_size = 0
    /\ offset = 0
    /\ index = -1
    /\ peeks = 0
    /\ result = <<>>
    /\ exc = NoExc
    /\ yielded = <<>>
    /\ conns = 0
    /\ listener_closed = FALSE
    /\ closed_handle = "none"
    /\ error = -1

----------------------------------------------------------------------------
\* The scheduler's hooks.

\* await self._check_cancelled()
CheckCancelled(next, raisepc) ==
    IF cancelled
    THEN pc' = raisepc /\ exc' = Exc("Cancelled", <<>>)
    ELSE pc' = next /\ exc' = exc

\* await self._wait_readable() / self._wait_writable(): returns on a wake
\* (which need not mean the socket is ready) or raises the cancellation.
Wait(next, raisepc) ==
    \/ pc' = next /\ exc' = exc
    \/ cancelled /\ pc' = raisepc /\ exc' = Exc("Cancelled", <<>>)

----------------------------------------------------------------------------
\* The environment.

\* k more bytes of the stream arrive in the receive queue.  A datagram
\* socket holds one datagram at a time.
Deliver ==
    /\ pc # "done"
    /\ net # <<>>
    /\ op \in DatagramReadOps => rcvq = <<>>
    /\ \E k \in 1..Len(net) :
        /\ rcvq' = rcvq \o Take(net, k)
        /\ net' = Drop(net, k)
    /\ UNCHANGED <<pc, ctlv, sockv, extv, stream, fin, taken, wire, preloaded, callv, sendv,
                   readv,
                   result, exc>>

\* The peer's end-of-stream arrives after its last byte.
DeliverFin ==
    /\ pc # "done"
    /\ net = <<>>
    /\ ~fin
    /\ fin' = TRUE
    /\ UNCHANGED <<pc, ctlv, sockv, extv, stream, rcvq, net, taken, wire, preloaded, callv,
                   sendv,
                   readv, result, exc>>

\* A client connects to the listening socket.
Connect ==
    /\ pc # "done"
    /\ op \in AcceptOps
    /\ handle = "none"
    /\ backlog = 0
    /\ backlog' = 1
    /\ UNCHANGED <<pc, ctlv, handle, plain_socket, released, notified, ssl_context, netv, extv,
                   callv, sendv, readv, result, exc>>

\* The scheduler cancels the task.
Cancel ==
    /\ pc # "done"
    /\ ~cancelled
    /\ cancelled' = TRUE
    /\ UNCHANGED <<pc, op, prev, ret, early, sockv, netv, extv, callv, sendv, readv, result,
                   exc>>

----------------------------------------------------------------------------
\* What the OS reports for a read of the receive queue.

\* the read can complete: bytes are queued, or the stream has ended
Readable == rcvq # <<>> \/ (net = <<>> /\ fin)

\* the transient signals of a read that cannot complete
RecvSignals == IF handle = "tls" THEN {"SSLWantReadError", "SSLWantWriteError"}
               ELSE {"BlockingIOError"}

\* the transient signals of a write that cannot complete
SendSignals == IF handle = "tls" THEN {"SSLWantWriteError", "SSLWantReadError"}
               ELSE {"BlockingIOError"}

\* a slip: a successful send may accept nothing of a non-empty payload
SendCountsWithZero(d) == 0..Len(d)

\* the counts a successful send of d may return
SendCounts(d) == IF d = <<>> THEN {0} ELSE 1..Len(d)

----------------------------------------------------------------------------
\* BaseSocket.recv

recv_check ==
    /\ pc = "recv_check"
    /\ CheckCancelled("recv_call", "done")
    /\ UNCHANGED <<ctlv, sockv, netv, extv, callv, sendv, readv, result>>

recv_call ==
    /\ pc = "recv_call"
    /\ IF Readable
       THEN /\ rv' = Take(rcvq, size)
            /\ rcvq' = (IF flags = "MSG_PEEK" THEN rcvq ELSE Drop(rcvq, size))
            /\ taken' = (IF flags = "MSG_PEEK" THEN taken ELSE taken \o Take(rcvq, size))
            /\ sig' = "none"
            /\ pc' = ret
       ELSE /\ \E s \in RecvSignals :
                /\ sig' = s
                /\ pc' = (IF s = "SSLWantWriteError" THEN "recv_wait_w" ELSE "recv_wait_r")
            /\ UNCHANGED <<rv, rcvq, taken>>
    /\ UNCHANGED <<ctlv, sockv, extv, stream, net, fin, wire, preloaded, size, flags,
                   bytes_read,
                   sendv, readv, result, exc>>

recv_wait_readable ==
    /\ pc = "recv_wait_r"
    /\ Wait("recv_check", "done")
    /\ UNCHANGED <<ctlv, sockv, netv, extv, callv, sendv, readv, result>>

recv_wait_writable ==
    /\ pc = "recv_wait_w"
    /\ Wait("recv_check", "done")
    /\ UNCHANGED <<ctlv, sockv, netv, extv, callv, sendv, readv, result>>

----------------------------------------------------------------------------
\* BaseSocket.recv_into

\* b with chunk written at 0-based position at
WriteAt(b, at, chunk) ==
    [i \in 1..Len(b) |-> IF at < i /\ i <= at + Len(chunk) THEN chunk[i - at] ELSE b[i]]

recv_into_check ==
    /\ pc = "recv_into_check"
    /\ CheckCancelled("recv_into_call", "done")
    /\ UNCHANGED <<ctlv, sockv, netv, extv, callv, sendv, readv, result>>

recv_into_call ==
    /\ pc = "recv_into_call"
    /\ IF Readable
       THEN /\ buf' = WriteAt(buf, view, Take(rcvq, size))
            /\ bytes_read' = Len(Take(rcvq, size))
            /\ rcvq' = Drop(rcvq, size)
            /\ taken' = taken \o Take(rcvq, size)
            /\ sig' = "none"
            /\ pc' = ret
       ELSE /\ \E s \in RecvSignals :
                /\ sig' = s
                /\ pc' = (IF s = "SSLWantWriteError" THEN "recv_into_wait_w"
                          ELSE "recv_into_wait_r")
            /\ UNCHANGED <<buf, bytes_read, rcvq, taken>>
    /\ UNCHANGED <<ctlv, sockv, extv, stream, net, fin, wire, preloaded, size, flags, rv, sendv,
                   view, nbytes, delimiter, max_size, offset, index, peeks, result, exc>>

recv_into_wait_readable ==
    /\ pc = "recv_into_wait_r"
    /\ Wait("recv_into_check", "done")
    /\ UNCHANGED <<ctlv, sockv, netv, extv, callv, sendv, readv, result>>

recv_into_wait_writable ==
    /\ pc = "recv_into_wait_w"
    /\ Wait("recv_into_check", "done")
    /\ UNCHANGED <<ctlv, sockv, netv, extv, callv, sendv, readv, result>>

----------------------------------------------------------------------------
\* SocketStream.receive_some, called first or after a receive_until that
\* returned a frame.

receive_some ==
    /\ \/ pc = "start" /\ op = "receive_some" /\ UNCHANGED <<op, prev>>
       \/ /\ pc = "done" /\ op = "receive_until" /\ prev = "none" /\ exc.type = "none"
          /\ op' = "receive_some"
          /\ prev' = op
    /\ \E max_bytes \in 1..MaxSize : size' = max_bytes
    /\ flags' = "none"
    /\ ret' = "receive_some_return"
    /\ pc' = "recv_check"
    /\ UNCHANGED <<cancelled, early, sockv, netv, extv, rv, bytes_read, sig, sendv, readv,
                   result, exc>>

receive_some_return ==
    /\ pc = "receive_some_return"
    /\ result' = rv
    /\ pc' = "done"
    /\ UNCHANGED <<ctlv, sockv, netv, extv, callv, sendv, readv, exc>>

----------------------------------------------------------------------------
\* SocketStream.receive_exactly

\* a slip: the whole buffer is taken for what was read
total_bytes_read_whole(b, n) == Len(b)

\* total_bytes_read = len(buf) - nbytes
total_bytes_read(b, n) == Len(b) - n

\* a slip: the view is not advanced
advance_view_stuck(v, n) == v

\* view = view[bytes_read:]
advance_view(v, n) == v + n

receive_exactly ==
    /\ pc = "start"
    /\ op = "receive_exactly"
    /\ \E n \in 0..MaxSize :
        /\ buf' = [i \in 1..n |-> 0]
        /\ nbytes' = n
        /\ size' = n
        /\ IF n > 0
           THEN pc' = "recv_into_check" /\ result' = result
           ELSE pc' = "done" /\ result' = <<>>
    /\ view' = 0
    /\ flags' = "none"
    /\ ret' = "receive_exactly_read"
    /\ UNCHANGED <<op, prev, cancelled, early, sockv, netv, extv, rv, bytes_read, sig, sendv,
                   delimiter,
                   max_size, offset, index, peeks, exc>>

receive_exactly_read ==
    /\ pc = "receive_exactly_read"
    /\ IF bytes_read = 0
       THEN /\ exc' = Exc("IncompleteRead", Take(buf, total_bytes_read(buf, nbytes)))
            /\ pc' = "done"
            /\ UNCHANGED <<view, nbytes, size, result>>
       ELSE /\ view' = advance_view(view, bytes_read)
            /\ nbytes' = nbytes - bytes_read
            /\ size' = nbytes - bytes_read
            /\ IF nbytes - bytes_read > 0
               THEN pc' = "recv_into_check" /\ result' = result
               ELSE pc' = "done" /\ result' = buf
            /\ exc' = exc
    /\ UNCHANGED <<ctlv, sockv, netv, extv, flags, rv, bytes_read, sig, sendv, buf, delimiter,
                   max_size, offset, index, peeks>>

----------------------------------------------------------------------------
\* SocketStream.receive_until

\* a slip: every peek asks for max_size bytes
read_size_full(m, b) == m

\* read_size = max_size - len(buf)
read_size(m, b) == m - Len(b)

\* a slip: the delimiter is left in the stream
frame_size_payload(i, d) == i

\* the size of the consuming read after a match: index + len(delimiter)
frame_size(i, d) == i + Len(d)

\* offset += len(data) - delimiter_size + 1
next_offset(off, dat, d) == off + Len(dat) - Len(d) + 1

\* where receive_until returns or raises to: receive_delimited_chunks calls
\* it inside its try statement
UntilEndPc == IF op = "receive_delimited_chunks" THEN "receive_delimited_chunks_next"
              ELSE "done"

\* while len(buf) < max_size: peek; else raise DelimiterNotFound(buf)
receive_until_loop(b, m) ==
    IF Len(b) < m
    THEN /\ size' = read_size(m, b)
         /\ flags' = "MSG_PEEK"
         /\ ret' = "receive_until_peeked"
         /\ pc' = "recv_check"
         /\ exc' = exc
    ELSE /\ exc' = Exc("DelimiterNotFound", b)
         /\ pc' = UntilEndPc
         /\ UNCHANGED <<size, flags, ret>>

receive_until ==
    /\ pc = "start"
    /\ op = "receive_until"
    /\ \E d \in SeqsUpTo(Byte, MaxDelim) \ {<<>>}, m \in 0..MaxSize :
        /\ delimiter' = d
        /\ max_size' = m
        /\ receive_until_loop(<<>>, m)
    /\ offset' = 0
    /\ buf' = <<>>
    /\ UNCHANGED <<op, prev, cancelled, early, sockv, netv, extv, rv, bytes_read, sig, sendv,
                   view, nbytes,
                   index, peeks, result>>

receive_until_peeked ==
    /\ pc = "receive_until_peeked"
    /\ data' = rv
    /\ IF rv = <<>>
       THEN /\ exc' = Exc("IncompleteRead", buf)
            /\ pc' = UntilEndPc
            /\ UNCHANGED <<buf, index, peeks, size, flags, ret>>
       ELSE /\ buf' = buf \o rv
            /\ index' = find(buf \o rv, delimiter, offset)
            /\ peeks' = peeks + 1
            /\ flags' = "none"
            /\ pc' = "recv_check"
            /\ exc' = exc
            /\ IF find(buf \o rv, delimiter, offset) >= 0
               THEN /\ size' = frame_size(find(buf \o rv, delimiter, offset), delimiter)
                    /\ ret' = "receive_until_found"
               ELSE /\ size' = Len(rv)
                    /\ ret' = "receive_until_drained"
    /\ UNCHANGED <<op, prev, cancelled, early, sockv, netv, extv, rv, bytes_read, sig,
                   to_send, sent, view,
                   nbytes, delimiter, max_size, offset, result>>

receive_until_found ==
    /\ pc = "receive_until_found"
    /\ result' = Take(buf, index)
    /\ pc' = UntilEndPc
    /\ UNCHANGED <<ctlv, sockv, netv, extv, callv, sendv, readv, exc>>

receive_until_drained ==
    /\ pc = "receive_until_drained"
    /\ offset' = next_offset(offset, data, delimiter)
    /\ receive_until_loop(buf, max_size)
    /\ UNCHANGED <<op, prev, cancelled, early, sockv, netv, extv, rv, bytes_read, sig, sendv,
                   buf, view,
                   nbytes, delimiter, max_size, index, peeks, result>>

----------------------------------------------------------------------------
\* BaseSocket.sendall (SocketStream.send_all delegates to it)

sendall ==
    /\ pc = "start"
    /\ op = "sendall"
    /\ \E d \in SeqsUpTo(Byte, MaxData) :
        /\ data' = d
        /\ to_send' = Len(d)
        /\ pc' = (IF Len(d) > 0 THEN "sendall_check" ELSE "done")
    /\ UNCHANGED <<ctlv, sockv, netv, extv, callv, sent, readv, result, exc>>

sendall_check ==
    /\ pc = "sendall_check"
    /\ CheckCancelled("sendall_send", "done")
    /\ UNCHANGED <<ctlv, sockv, netv, extv, callv, sendv, readv, result>>

\* sent = self._raw_socket.send(data, flags): the OS is offered the whole
\* of data on every attempt and accepts a non-empty prefix of what it is
\* offered.
sendall_send ==
    /\ pc = "sendall_send"
    /\ \/ \E k \in SendCounts(data) :
            /\ sent' = k
            /\ wire' = wire \o Take(data, k)
            /\ to_send' = to_send - k
            /\ sig' = "none"
            /\ pc' = (IF to_send - k > 0 THEN "sendall_check" ELSE "done")
       \/ \E s \in SendSignals :
            /\ sig' = s
            /\ pc' = (IF s = "SSLWantReadError" THEN "sendall_wait_r" ELSE "sendall_wait_w")
            /\ UNCHANGED <<sent, wire, to_send>>
    /\ UNCHANGED <<ctlv, sockv, extv, stream, rcvq, net, fin, taken, preloaded, size, flags, rv,
                   bytes_read, data, readv, result, exc>>

sendall_wait_writable ==
    /\ pc = "sendall_wait_w"
    /\ Wait("sendall_check", "done")
    /\ UNCHANGED <<ctlv, sockv, netv, extv, callv, sendv, readv, result>>

sendall_wait_readable ==
    /\ pc = "sendall_wait_r"
    /\ Wait("sendall_check", "done")
    /\ UNCHANGED <<ctlv, sockv, netv, extv, callv, sendv, readv, result>>

----------------------------------------------------------------------------
\* BaseSocket.send (DatagramSocket.send without a destination)

send ==
    /\ pc = "start"
    /\ op = "send"
    /\ \E d \in SeqsUpTo(Byte, MaxData) : data' = d
    /\ pc' = "send_check"
    /\ UNCHANGED <<ctlv, sockv, netv, extv, callv, to_send, sent, readv, result, exc>>

send_check ==
    /\ pc = "send_check"
    /\ CheckCancelled("send_call", "done")
    /\ UNCHANGED <<ctlv, sockv, netv, extv, callv, sendv, readv, result>>

send_call ==
    /\ pc = "send_call"
    /\ \/ \E k \in SendCounts(data) :
            /\ sent' = k
            /\ wire' = wire \o Take(data, k)
            /\ sig' = "none"
            /\ pc' = "done"
       \/ \E s \in SendSignals :
            /\ sig' = s
            /\ pc' = (IF s = "SSLWantReadError" THEN "send_wait_r" ELSE "send_wait_w")
            /\ UNCHANGED <<sent, wire>>
    /\ UNCHANGED <<ctlv, sockv, extv, stream, rcvq, net, fin, taken, preloaded, size, flags, rv,
                   bytes_read, data, to_send, readv, result, exc>>

send_wait_writable ==
    /\ pc = "send_wait_w"
    /\ Wait("send_check", "done")
    /\ UNCHANGED <<ctlv, sockv, netv, extv, callv, sendv, readv, result>>

send_wait_readable ==
    /\ pc = "send_wait_r"
    /\ Wait("send_check", "done")
    /\ UNCHANGED <<ctlv, sockv, netv, extv, callv, sendv, readv, result>>

----------------------------------------------------------------------------
\* BaseSocket.sendto (DatagramSocket.send with a destination): a datagram
\* is accepted whole or not at all.

sendto ==
    /\ pc = "start"
    /\ op = "sendto"
    /\ \E d \in SeqsUpTo(Byte, MaxData) : data' = d
    /\ pc' = "sendto_check"
    /\ UNCHANGED <<ctlv, sockv, netv, extv, callv, to_send, sent, readv, result, exc>>

sendto_check ==
    /\ pc = "sendto_check"
    /\ CheckCancelled("sendto_call", "done")
    /\ UNCHANGED <<ctlv, sockv, netv, extv, callv, sendv, readv, result>>

sendto_call ==
    /\ pc = "sendto_call"
    /\ \/ /\ sent' = Len(data)
          /\ wire' = wire \o data
          /\ sig' = "none"
          /\ pc' = "done"
       \/ /\ sig' = "BlockingIOError"
          /\ pc' = "sendto_wait"
          /\ UNCHANGED <<sent, wire>>
    /\ UNCHANGED <<ctlv, sockv, extv, stream, rcvq, net, fin, taken, preloaded, size, flags, rv,
                   bytes_read, data, to_send, readv, result, exc>>

sendto_wait ==
    /\ pc = "sendto_wait"
    /\ Wait("sendto_retry", "done")
    /\ UNCHANGED <<ctlv, sockv, netv, extv, callv, sendv, readv, result>>

\* the second call is outside the try: what it raises leaves sendto
sendto_retry ==
    /\ pc = "sendto_retry"
    /\ pc' = "done"
    /\ \/ /\ sent' = Len(data)
          /\ wire' = wire \o data
          /\ sig' = "none"
          /\ exc' = exc
       \/ /\ sig' = "BlockingIOError"
          /\ exc' = Exc("BlockingIOError", <<>>)
          /\ UNCHANGED <<sent, wire>>
    /\ UNCHANGED <<ctlv, sockv, extv, stream, rcvq, net, fin, taken, preloaded, size, flags, rv,
                   bytes_read, data, to_send, readv, result>>

----------------------------------------------------------------------------
\* BaseSocket.recvfrom (DatagramSocket.receive): the queued datagram is
\* returned, cut to size, and leaves the queue whole.

recvfrom ==
    /\ pc = "start"
    /\ op = "recvfrom"
    /\ \E n \in 1..MaxSize : size' = n
    /\ pc' = "recvfrom_check"
    /\ UNCHANGED <<ctlv, sockv, netv, extv, flags, rv, bytes_read, sig, sendv, readv, result,
                   exc>>

recvfrom_check ==
    /\ pc = "recvfrom_check"
    /\ CheckCancelled("recvfrom_call", "done")
    /\ UNCHANGED <<ctlv, sockv, netv, extv, callv, sendv, readv, result>>

recvfrom_call ==
    /\ pc = "recvfrom_call"
    /\ IF rcvq # <<>>
       THEN /\ result' = Take(rcvq, size)
            /\ taken' = taken \o rcvq
            /\ rcvq' = <<>>
            /\ sig' = "none"
            /\ pc' = "done"
       ELSE /\ sig' = "BlockingIOError"
            /\ pc' = "recvfrom_wait"
            /\ UNCHANGED <<result, taken, rcvq>>
    /\ UNCHANGED <<ctlv, sockv, extv, stream, net, fin, wire, preloaded, size, flags, rv,
                   bytes_read,
                   sendv, readv, exc>>

recvfrom_wait ==
    /\ pc = "recvfrom_wait"
    /\ Wait("recvfrom_retry", "done")
    /\ UNCHANGED <<ctlv, sockv, netv, extv, callv, sendv, readv, result>>

recvfrom_retry ==
    /\ pc = "recvfrom_retry"
    /\ pc' = "done"
    /\ IF rcvq # <<>>
       THEN /\ result' = Take(rcvq, size)
            /\ taken' = taken \o rcvq
            /\ rcvq' = <<>>
            /\ sig' = "none"
            /\ exc' = exc
       ELSE /\ sig' = "BlockingIOError"
            /\ exc' = Exc("BlockingIOError", <<>>)
            /\ UNCHANGED <<result, taken, rcvq>>
    /\ UNCHANGED <<ctlv, sockv, extv, stream, net, fin, wire, preloaded, size, flags, rv,
                   bytes_read,
                   sendv, readv>>

----------------------------------------------------------------------------
\* BaseSocket.recvfrom_into: as recvfrom, into the caller's buffer.

recvfrom_into ==
    /\ pc = "start"
    /\ op = "recvfrom_into"
    /\ \E n \in 1..MaxSize :
        /\ size' = n
        /\ buf' = [i \in 1..n |-> 0]
    /\ pc' = "recvfrom_into_check"
    /\ UNCHANGED <<ctlv, sockv, netv, extv, flags, rv, bytes_read, sig, sendv, view, nbytes,
                   delimiter, max_size, offset, index, peeks, result, exc>>

recvfrom_into_check ==
    /\ pc = "recvfrom_into_check"
    /\ CheckCancelled("recvfrom_into_call", "done")
    /\ UNCHANGED <<ctlv, sockv, netv, extv, callv, sendv, readv, result>>

recvfrom_into_call ==
    /\ pc = "recvfrom_into_call"
    /\ IF rcvq # <<>>
       THEN /\ buf' = WriteAt(buf, 0, Take(rcvq, size))
            /\ bytes_read' = Len(Take(rcvq, size))
            /\ taken' = taken \o rcvq
            /\ rcvq' = <<>>
            /\ sig' = "none"
            /\ pc' = "done"
       ELSE /\ sig' = "BlockingIOError"
            /\ pc' = "recvfrom_into_wait"
            /\ UNCHANGED <<buf, bytes_read, taken, rcvq>>
    /\ UNCHANGED <<ctlv, sockv, extv, stream, net, fin, wire, preloaded, size, flags, rv, sendv,
                   view, nbytes, delimiter, max_size, offset, index, peeks, result, exc>>

recvfrom_into_wait ==
    /\ pc = "recvfrom_into_wait"
    /\ Wait("recvfrom_into_retry", "done")
    /\ UNCHANGED <<ctlv, sockv, netv, extv, callv, sendv, readv, result>>

recvfrom_into_retry ==
    /\ pc = "recvfrom_into_retry"
    /\ pc' = "done"
    /\ IF rcvq # <<>>
       THEN /\ buf' = WriteAt(buf, 0, Take(rcvq, size))
            /\ bytes_read' = Len(Take(rcvq, size))
            /\ taken' = taken \o rcvq
            /\ rcvq' = <<>>
            /\ sig' = "none"
            /\ exc' = exc
       ELSE /\ sig' = "BlockingIOError"
            /\ exc' = Exc("BlockingIOError", <<>>)
            /\ UNCHANGED <<buf, bytes_read, taken, rcvq>>
    /\ UNCHANGED <<ctlv, sockv, extv, stream, net, fin, wire, preloaded, size, flags, rv, sendv,
                   view, nbytes, delimiter, max_size, offset, index, peeks, result>>

----------------------------------------------------------------------------
\* BaseSocket.accept

\* self._raw_socket.accept() with a queued connection:
\* return self.__class__(raw_socket), address
Accepted ==
    /\ backlog' = backlog - 1
    /\ handle' = "plain"
    /\ sig' = "none"
    /\ pc' = ret
    /\ exc' = exc

accept_check ==
    /\ pc = "accept_check"
    /\ CheckCancelled("accept_call", "done")
    /\ UNCHANGED <<ctlv, sockv, netv, extv, callv, sendv, readv, result>>

accept_call ==
    /\ pc = "accept_call"
    /\ IF backlog > 0
       THEN Accepted
       ELSE /\ sig' = "BlockingIOError"
            /\ pc' = "accept_wait"
            /\ UNCHANGED <<backlog, handle, exc>>
    /\ UNCHANGED <<ctlv, plain_socket, released, notified, ssl_context, netv, extv, size,
                   flags, rv,
                   bytes_read, sendv, readv, result>>

accept_wait ==
    /\ pc = "accept_wait"
    /\ Wait("accept_retry", "done")
    /\ UNCHANGED <<ctlv, sockv, netv, extv, callv, sendv, readv, result>>

\* the second call is outside the try: what it raises leaves accept
accept_retry ==
    /\ pc = "accept_retry"
    /\ IF backlog > 0
       THEN Accepted
       ELSE /\ sig' = "BlockingIOError"
            /\ exc' = Exc("BlockingIOError", <<>>)
            /\ pc' = "done"
            /\ UNCHANGED <<backlog, handle>>
    /\ UNCHANGED <<ctlv, plain_socket, released, notified, ssl_context, netv, extv, size,
                   flags, rv,
                   bytes_read, sendv, readv, result>>

----------------------------------------------------------------------------
\* BaseSocket.start_tls (SocketStream.start_tls picks the context and
\* delegates to it)

\* where an exception raised inside start_tls goes: SocketStreamServer.accept
\* calls it inside its try block
TlsRaisePc == IF op \in {"server_accept", "accept_connections"} THEN "server_accept_except"
              ELSE "done"

\* where SocketStreamServer.accept returns its stream to: accept_connections
\* yields it
StreamReturnPc == IF op = "accept_connections" THEN "accept_connections_yield" ELSE "done"

start_tls ==
    /\ pc = "tls_wrap"
    /\ plain_socket' = handle
    /\ \/ /\ handle' = "tls"
          /\ pc' = "tls_handshake"
          /\ exc' = exc
       \/ /\ handle' = handle
          /\ pc' = TlsRaisePc
          /\ exc' = Exc("SSLError", <<>>)
    /\ UNCHANGED <<ctlv, released, notified, backlog, ssl_context, netv, extv, callv, sendv,
                   readv,
                   result>>

\* the except BaseException clause: self._raw_socket = plain_socket; raise
start_tls_rollback ==
    /\ handle' = plain_socket
    /\ exc' = Exc("SSLError", <<>>)
    /\ sig' = "none"
    /\ pc' = TlsRaisePc

\* a slip: the two handshake signals wait on each other's hook
do_handshake_swapped ==
    /\ pc = "tls_handshake"
    /\ \/ /\ sig' = "none"
          /\ pc' = StreamReturnPc
          /\ UNCHANGED <<handle, exc>>
       \/ /\ sig' = "SSLWantReadError"
          /\ pc' = "tls_wait_w"
          /\ UNCHANGED <<handle, exc>>
       \/ /\ sig' = "SSLWantWriteError"
          /\ pc' = "tls_wait_r"
          /\ UNCHANGED <<handle, exc>>
       \/ start_tls_rollback
    /\ UNCHANGED <<ctlv, plain_socket, released, notified, backlog, ssl_context, netv, extv,
                   size,
                   flags, rv, bytes_read, sendv, readv, result>>

\* while True: try: self._raw_socket.do_handshake(); return
do_handshake ==
    /\ pc = "tls_handshake"
    /\ \/ /\ sig' = "none"
          /\ pc' = StreamReturnPc
          /\ UNCHANGED <<handle, exc>>
       \/ /\ sig' = "SSLWantReadError"
          /\ pc' = "tls_wait_r"
          /\ UNCHANGED <<handle, exc>>
       \/ /\ sig' = "SSLWantWriteError"
          /\ pc' = "tls_wait_w"
          /\ UNCHANGED <<handle, exc>>
       \/ start_tls_rollback
    /\ UNCHANGED <<ctlv, plain_socket, released, notified, backlog, ssl_context, netv, extv,
                   size,
                   flags, rv, bytes_read, sendv, readv, result>>

\* the waits run inside the except clauses of the try statement: what they
\* raise is not caught by the sibling except BaseException clause
start_tls_wait_readable ==
    /\ pc = "tls_wait_r"
    /\ Wait("tls_handshake", TlsRaisePc)
    /\ UNCHANGED <<ctlv, sockv, netv, extv, callv, sendv, readv, result>>

start_tls_wait_writable ==
    /\ pc = "tls_wait_w"
    /\ Wait("tls_handshake", TlsRaisePc)
    /\ UNCHANGED <<ctlv, sockv, netv, extv, callv, sendv, readv, result>>

----------------------------------------------------------------------------
\* BaseSocket.close

\* a slip: the handle is released without the scheduler being told
close_notify_skipped ==
    /\ pc = "close_notify"
    /\ pc' = "close_release"
    /\ UNCHANGED <<ctlv, sockv, netv, extv, callv, sendv, readv, result, exc>>

\* await self._notify_close()
close_notify ==
    /\ pc = "close_notify"
    /\ notified' = TRUE
    /\ pc' = "close_release"
    /\ UNCHANGED <<ctlv, handle, plain_socket, released, backlog, ssl_context, netv, extv,
                   callv,
                   sendv, readv, result, exc>>

\* self._raw_socket.close(); in SocketStreamServer.accept the bare raise
\* follows and re-raises the exception being handled
close_release ==
    /\ pc = "close_release"
    /\ released' = TRUE
    /\ closed_handle' = handle
    /\ pc' = "done"
    /\ UNCHANGED <<ctlv, handle, plain_socket, notified, backlog, ssl_context, netv, yielded,
                   conns, listener_closed, error, callv,
                   sendv, readv, result, exc>>

----------------------------------------------------------------------------
\* SocketStreamServer.accept

server_accept ==
    /\ pc = "start"
    /\ op = "server_accept"
    /\ ret' = "server_accepted"
    /\ pc' = "accept_check"
    /\ UNCHANGED <<op, prev, cancelled, early, sockv, netv, extv, callv, sendv, readv,
                   result, exc>>

\* stream = SocketStream(sock); if self._ssl_context: start_tls; return stream
server_accepted ==
    /\ pc = "server_accepted"
    /\ pc' = (IF ssl_context THEN "tls_wrap" ELSE StreamReturnPc)
    /\ UNCHANGED <<ctlv, sockv, netv, extv, callv, sendv, readv, result, exc>>

\* a slip: the failure is propagated without closing the accepted socket
server_accept_except_no_close ==
    /\ pc = "server_accept_except"
    /\ pc' = "done"
    /\ UNCHANGED <<ctlv, sockv, netv, extv, callv, sendv, readv, result, exc>>

\* except BaseException: await sock.close(); raise
server_accept_except ==
    /\ pc = "server_accept_except"
    /\ pc' = "close_notify"
    /\ UNCHANGED <<ctlv, sockv, netv, extv, callv, sendv, readv, result, exc>>

----------------------------------------------------------------------------
\* SocketStreamServer.accept_connections, with a consumer that takes every
\* stream.  Whether the listening socket has been closed is seen at the
\* loop test.

\* while not self._socket.closed: ... await self.accept()
accept_connections ==
    /\ op = "accept_connections"
    /\ pc \in {"start", "accept_connections_next"}
    /\ \/ /\ listener_closed' = TRUE
          /\ pc' = "done"
          /\ UNCHANGED <<ret, handle, plain_socket, released, notified, closed_handle>>
       \/ /\ conns < MaxConns
          /\ listener_closed' = FALSE
          /\ handle' = "none"
          /\ plain_socket' = "none"
          /\ released' = FALSE
          /\ notified' = FALSE
          /\ closed_handle' = "none"
          /\ ret' = "server_accepted"
          /\ pc' = "accept_check"
    /\ UNCHANGED <<op, prev, cancelled, early, backlog, ssl_context, netv, yielded, conns,
                   error, callv, sendv, readv, result, exc>>

\* await yield_(stream)
accept_connections_yield ==
    /\ pc = "accept_connections_yield"
    /\ conns' = conns + 1
    /\ pc' = "accept_connections_next"
    /\ UNCHANGED <<ctlv, sockv, netv, yielded, listener_closed, closed_handle, error, callv,
                   sendv, readv, result, exc>>

----------------------------------------------------------------------------
\* BaseSocket.connect

\* what getsockopt(SOL_SOCKET, SO_ERROR) can report once the connect has
\* been left in progress: 0, or the errno of the failed attempt
ErrorCodes == {0, 111}

\* a slip: the test of the error code is inverted
connect_failed_inverted(e) == e = 0

\* if error:
connect_failed(e) == e # 0

\* error = getsockopt(SOL_SOCKET, SO_ERROR); if error: raise OSError(error, ...)
so_error(e) ==
    /\ error' = e
    /\ exc' = (IF connect_failed(e) THEN Exc("OSError", <<e>>) ELSE exc)
    /\ pc' = "done"

connect_check ==
    /\ pc = "connect_check"
    /\ CheckCancelled("connect_call", "done")
    /\ UNCHANGED <<ctlv, sockv, netv, extv, callv, sendv, readv, result>>

\* self._raw_socket.connect(address): completes at once (the pending error
\* is then 0), is left in progress (BlockingIOError), or fails at once
\* with an error of its own, which leaves connect
connect_call ==
    /\ pc = "connect_call"
    /\ \/ /\ sig' = "none"
          /\ so_error(0)
       \/ /\ sig' = "BlockingIOError"
          /\ pc' = "connect_wait"
          /\ UNCHANGED <<error, exc>>
       \/ /\ sig' = "none"
          /\ exc' = Exc("OSError", <<101>>)
          /\ pc' = "done"
          /\ error' = error
    /\ UNCHANGED <<ctlv, sockv, netv, yielded, conns, listener_closed, closed_handle, size,
                   flags, rv, bytes_read, sendv, readv, result>>

connect_wait ==
    /\ pc = "connect_wait"
    /\ Wait("connect_so_error", "done")
    /\ UNCHANGED <<ctlv, sockv, netv, extv, callv, sendv, readv, result>>

connect_so_error ==
    /\ pc = "connect_so_error"
    /\ \E e \in ErrorCodes : so_error(e)
    /\ UNCHANGED <<ctlv, sockv, netv, yielded, conns, listener_closed, closed_handle, callv,
                   sendv, readv, result>>

----------------------------------------------------------------------------
\* SocketStream.receive_delimited_chunks, with a consumer that takes every
\* frame

\* a slip: every IncompleteRead ends the generator quietly
reraises_never(e) == FALSE

\* if exc.data: raise
reraises(e) == e.data # <<>>

\* chunk = await self.receive_until(delimiter, max_chunk_size): the call and
\* its first statements
receive_until_called(m) ==
    /\ offset' = 0
    /\ buf' = <<>>
    /\ peeks' = 0
    /\ receive_until_loop(<<>>, m)

receive_delimited_chunks ==
    /\ pc = "start"
    /\ op = "receive_delimited_chunks"
    /\ \E d \in SeqsUpTo(Byte, MaxChunkDelim) \ {<<>>}, m \in 0..MaxSize :
        /\ delimiter' = d
        /\ max_size' = m
        /\ receive_until_called(m)
    /\ UNCHANGED <<op, prev, cancelled, early, sockv, netv, extv, rv, bytes_read, sig, sendv,
                   view, nbytes, index, result>>

\* receive_until has returned a chunk (yield it and call again) or raised
receive_delimited_chunks_next ==
    /\ pc = "receive_delimited_chunks_next"
    /\ IF exc.type = "none"
       THEN /\ yielded' = Append(yielded, result)
            /\ receive_until_called(max_size)
       ELSE /\ exc' = (IF exc.type = "IncompleteRead" /\ ~reraises(exc) THEN NoExc ELSE exc)
            /\ pc' = "done"
            /\ UNCHANGED <<yielded, offset, buf, peeks, size, flags, ret>>
    /\ UNCHANGED <<op, prev, cancelled, early, sockv, netv, conns, listener_closed,
                   closed_handle, error, rv, bytes_read, sig, sendv, view, nbytes, delimiter,
                   max_size, index, result>>

----------------------------------------------------------------------------
\* SocketStream.receive_chunks, with a consumer that takes every chunk

\* a slip: the chunk is yielded before it is tested
yields_always(d) == TRUE

\* if data:
yields(d) == d # <<>>

receive_chunks ==
    /\ pc = "start"
    /\ op = "receive_chunks"
    /\ \E m \in 1..MaxSize :
        /\ max_size' = m
        /\ size' = m
    /\ flags' = "none"
    /\ ret' = "receive_chunks_read"
    /\ pc' = "recv_check"
    /\ UNCHANGED <<op, prev, cancelled, early, sockv, netv, extv, rv, bytes_read, sig, sendv,
                   buf, view, nbytes, delimiter, offset, index, peeks, result, exc>>

\* data = await self.receive_some(max_size) has returned
receive_chunks_read ==
    /\ pc = "receive_chunks_read"
    /\ IF yields(rv)
       THEN /\ yielded' = Append(yielded, rv)
            /\ pc' = "recv_check"
       ELSE /\ yielded' = yielded
            /\ pc' = "done"
    /\ UNCHANGED <<ctlv, sockv, netv, conns, listener_closed, closed_handle, error, callv,
                   sendv, readv, result, exc>>

----------------------------------------------------------------------------

Next ==
    \/ Deliver \/ DeliverFin \/ Connect \/ Cancel
    \/ recv_check \/ recv_call \/ recv_wait_readable \/ recv_wait_writable
    \/ recv_into_check \/ recv_into_call \/ recv_into_wait_readable \/ recv_into_wait_writable
    \/ receive_some \/ receive_some_return
    \/ receive_exactly \/ receive_exactly_read
    \/ receive_until \/ receive_until_peeked \/ receive_until_found \/ receive_until_drained
    \/ sendall \/ sendall_check \/ sendall_send \/ sendall_wait_writable \/ sendall_wait_readable
    \/ send \/ send_check \/ send_call \/ send_wait_writable \/ send_wait_readable
    \/ sendto \/ sendto_check \/ sendto_call \/ sendto_wait \/ sendto_retry
    \/ recvfrom \/ recvfrom_check \/ recvfrom_call \/ recvfrom_wait \/ recvfrom_retry
    \/ recvfrom_into \/ recvfrom_into_check \/ recvfrom_into_call \/ recvfrom_into_wait
    \/ recvfrom_into_retry
    \/ accept_check \/ accept_call \/ accept_wait \/ accept_retry
    \/ start_tls \/ do_handshake \/ start_tls_wait_readable \/ start_tls_wait_writable
    \/ close_notify \/ close_release
    \/ server_accept \/ server_accepted \/ server_accept_except
    \/ receive_chunks \/ receive_chunks_read
    \/ receive_delimited_chunks \/ receive_delimited_chunks_next
    \/ accept_connections \/ accept_connections_yield
    \/ connect_check \/ connect_call \/ connect_wait \/ connect_so_error

Spec == Init /\ [][Next]_vars

\* One call of sendall under the scheduling its termination depends on: the
\* task's own steps are taken, a readiness wait returns, and a send that is
\* attempted again and again after such waits is at some time accepted.
FairInit == Init /\ op = "sendall"

FairNext ==
    \/ Cancel
    \/ sendall \/ sendall_check \/ sendall_send
    \/ sendall_wait_writable \/ sendall_wait_readable

FairSpec ==
    /\ FairInit
    /\ [][FairNext]_vars
    /\ WF_vars(sendall)
    /\ WF_vars(sendall_check)
    /\ WF_vars(sendall_send)
    /\ WF_vars(sendall_wait_writable)
    /\ WF_vars(sendall_wait_readable)
    /\ SF_vars(sendall_send /\ sig' = "none")

----------------------------------------------------------------------------
TypeOK ==
    /\ op \in Ops
    /\ handle \in {"none", "plain", "tls"}
    /\ Len(rcvq) + Len(net) <= MaxStream
    /\ exc.type \in {"none", "Cancelled", "BlockingIOError", "SSLError", "IncompleteRead",
                     "DelimiterNotFound", "OSError"}

----------------------------------------------------------------------------
\* Vocabulary of the properties.

\* what the stream still holds for later reads
Unread == rcvq \o net

\* the 0-based positions at which d occurs in s
Occurrences(s, d) == {i \in 0..Len(s) : OccursAt(s, d, i)}

\* d occurs in s at i and nowhere before i
FirstAt(s, d, i) == i \in Occurrences(s, d) /\ \A j \in Occurrences(s, d) : i <= j

\* the operation has ended and the task was not cancelled out of it
Ended(o) == op = o /\ pc = "done" /\ exc.type # "Cancelled"

\* C1: sendall hands the peer exactly the bytes of data, in order, each
\* once, whatever short counts the OS returns.
C1_SendallExactlyOnce ==
    (op = "sendall" /\ pc = "done" /\ exc.type = "none") => wire = data

\* C2 as stated: for every split of the pre-loaded stream into p + d + rest
\* with p not containing d and max_size >= len(p) + len(d), receive_until
\* returns p and leaves rest.
C2_AnyPayloadWithoutDelimiter ==
    (Ended("receive_until") /\ preloaded) =>
        \A i \in Occurrences(stream, delimiter) :
            (Occurrences(Take(stream, i), delimiter) = {} /\ max_size >= i + Len(delimiter))
            => (exc.type = "none" /\ result = Take(stream, i)
                /\ Unread = Drop(stream, i + Len(delimiter)))

\* C2 amended: when d occurs in p + d only as its suffix (so the delimiter
\* that ends p is the first one in the stream) and max_size >= len(p) +
\* len(d), receive_until on the pre-loaded stream p + d + rest returns p and
\* leaves rest unread; a following receive_some(max_bytes) returns the first
\* min(max_bytes, len(rest)) bytes of rest.
C2_ReceiveUntilPreloaded ==
    /\ (Ended("receive_until") /\ preloaded) =>
           \A i \in 0..Len(stream) :
               (FirstAt(stream, delimiter, i) /\ max_size >= i + Len(delimiter))
               => (exc.type = "none" /\ result = Take(stream, i)
                   /\ Unread = Drop(stream, i + Len(delimiter)))
    /\ (Ended("receive_some") /\ prev = "receive_until" /\ preloaded) =>
           \A i \in 0..Len(stream) :
               FirstAt(stream, delimiter, i)
               => (exc.type = "none"
                   /\ result = Take(Drop(stream, i + Len(delimiter)), size))

C2_Witness ==
    /\ Ended("receive_some") /\ prev = "receive_until" /\ preloaded
    /\ index > 0
    /\ result # <<>>
    /\ result = Drop(stream, index + Len(delimiter))

\* C3: a receive_until that needed more than one peek and returned a frame
\* has removed exactly the len(p) + len(d) bytes of that frame.
C3_ConsumesOnlyTheFrame ==
    (op = "receive_until" /\ pc = "done" /\ exc.type = "none" /\ peeks > 1)
    => Len(taken) = Len(result) + Len(delimiter)

\* C4: whatever the fragmentation, when the first delimiter of the stream
\* ends within max_size bytes receive_until finds it and returns the bytes
\* before it.
C4_DelimiterNeverMissed ==
    Ended("receive_until") =>
        \A i \in 0..Len(stream) :
            (FirstAt(stream, delimiter, i) /\ i + Len(delimiter) <= max_size)
            => (exc.type = "none" /\ result = Take(stream, i))

\* C5: when the stream delivers at least n bytes, receive_exactly(n)
\* returns its first n bytes and consumes exactly those.
C5_ReceiveExactly ==
    (Ended("receive_exactly") /\ Len(stream) >= Len(buf))
    => /\ exc.type = "none"
       /\ result = Take(stream, Len(buf))
       /\ taken = Take(stream, Len(buf))
       /\ Unread = Drop(stream, Len(buf))

C5_Witness ==
    /\ Ended("receive_exactly")
    /\ exc.type = "none"
    /\ Len(result) >= 2
    /\ bytes_read < Len(result)
    /\ Unread # <<>>

\* C6: when the stream ends after k < n bytes, receive_exactly(n) raises
\* IncompleteRead carrying exactly those k bytes.
C6_IncompleteRead ==
    (Ended("receive_exactly") /\ Len(stream) < Len(buf))
    => exc = Exc("IncompleteRead", stream)

C6_Witness ==
    /\ Ended("receive_exactly")
    /\ exc.type = "IncompleteRead"
    /\ Len(exc.data) >= 2
    /\ Len(exc.data) < Len(buf)
    /\ ~preloaded

\* C7: the accumulated buffer never exceeds max_size; when the first
\* max_size bytes of the stream hold no delimiter, receive_until raises
\* DelimiterNotFound carrying exactly those bytes, which are exactly the
\* bytes it consumed.
C7_DelimiterNotFound ==
    /\ op = "receive_until" => Len(buf) <= max_size
    /\ (Ended("receive_until") /\ Len(stream) >= max_size
        /\ Occurrences(Take(stream, max_size), delimiter) = {})
       => /\ exc = Exc("DelimiterNotFound", Take(stream, max_size))
          /\ taken = exc.data

C7_Witness ==
    /\ Ended("receive_until")
    /\ exc.type = "DelimiterNotFound"
    /\ Len(exc.data) >= 2
    /\ peeks >= 2
    /\ Unread # <<>>

\* C8: whenever start_tls ends with an exception the socket's handle is the
\* plain handle it had before the call.
C8_TlsAllOrNothing ==
    (op = "start_tls" /\ pc = "done" /\ exc.type # "none") => handle = "plain"

\* C9: once a connection is accepted, SocketStreamServer.accept either
\* returns the stream with the socket open, or has notified the scheduler
\* and released the socket before the failure of the upgrade leaves it.
C9_AcceptedSocketNeverLeaks ==
    (op = "server_accept" /\ pc = "done" /\ handle # "none")
    => IF exc.type = "none"
       THEN ~released /\ ~notified /\ (ssl_context <=> handle = "tls")
       ELSE released /\ notified /\ exc.type \in {"SSLError", "Cancelled"}

C9_Witness ==
    /\ op = "server_accept" /\ pc = "done"
    /\ ssl_context
    /\ plain_socket = "plain"
    /\ exc.type = "SSLError"
    /\ released

\* C10: no BaseSocket operation ends with the would-block signal.
C10_WouldBlockNeverSurfaces ==
    pc = "done" => exc.type # "BlockingIOError"

\* The positions at which the task calls check_cancelled, and those at which
\* it is suspended in wait_readable or wait_writable.
CheckPcs == {"recv_check", "recv_into_check", "sendall_check", "send_check", "sendto_check",
             "recvfrom_check", "recvfrom_into_check", "accept_check", "connect_check"}
WaitPcs == {"recv_wait_r", "recv_wait_w", "recv_into_wait_r", "recv_into_wait_w",
            "sendall_wait_w", "sendall_wait_r", "send_wait_w", "send_wait_r", "sendto_wait",
            "recvfrom_wait", "recvfrom_into_wait", "accept_wait", "connect_wait",
            "tls_wait_r", "tls_wait_w"}

\* the behaviours that are one call of a BaseSocket operation
BaseSocketCalls == {"accept", "connect", "receive_some", "recvfrom", "recvfrom_into", "send",
                    "sendto", "sendall", "start_tls"}

\* C11: a BaseSocket operation called by a task that is already cancelled
\* gets no further than its cancellation check: it ends with Cancelled, and
\* the handle is the one it was called with, unread, unwritten and unwrapped.
C11_CancelledBeforeFirstAccess ==
    (early /\ op \in BaseSocketCalls /\ prev = "none") =>
        /\ pc \in {Entry(op), "done"} \cup CheckPcs
        /\ pc = "done" => exc.type = "Cancelled"
        /\ handle \in Handles(op)
        /\ wire = <<>> /\ taken = <<>> /\ sig = "none"

\* C12: whenever a readiness wait returns normally, the next thing the
\* operation does is the cancellation check, so no socket call is retried
\* after a wake without one.
C12_CheckAfterEveryWake ==
    [][(pc \in WaitPcs /\ pc' # pc /\ exc' = exc) => pc' \in CheckPcs]_vars

\* the chunks of a sequence of chunks, joined
RECURSIVE Flatten(_)
Flatten(ss) == IF ss = <<>> THEN <<>> ELSE Head(ss) \o Flatten(Tail(ss))

\* C13: receive_chunks never yields an empty chunk; the chunks yielded, in
\* order, are the bytes consumed from the stream; it ends without error
\* only on an empty read, which is the end of the stream, and an empty read
\* is followed by no other read.
C13_ReceiveChunks ==
    /\ [](op = "receive_chunks" =>
            /\ \A i \in 1..Len(yielded) : yielded[i] # <<>>
            /\ taken = Flatten(yielded) \o (IF pc = "receive_chunks_read" THEN rv ELSE <<>>)
            /\ (pc = "done" /\ exc.type = "none")
               => (rv = <<>> /\ fin /\ Flatten(yielded) = stream))
    /\ [][(pc = "receive_chunks_read" /\ rv = <<>> /\ pc' # pc)
          => (pc' = "done" /\ exc' = NoExc /\ yielded' = yielded)]_vars

C13_Witness ==
    /\ op = "receive_chunks" /\ pc = "done" /\ exc.type = "none"
    /\ Len(yielded) >= 2
    /\ Len(yielded[1]) >= 2

\* C14: receive_delimited_chunks ends without error exactly when
\* receive_until met the end of the stream with nothing accumulated; an
\* IncompleteRead that carries bytes and a DelimiterNotFound are propagated
\* as raised; every chunk receive_until returns is yielded, in call order.
C14_ReceiveDelimitedChunks ==
    /\ []((op = "receive_delimited_chunks" /\ pc = "done") =>
            /\ exc.type \in {"none", "IncompleteRead", "DelimiterNotFound", "Cancelled"}
            /\ exc.type = "none" => (buf = <<>> /\ rv = <<>> /\ fin /\ Unread = <<>>)
            /\ exc.type = "IncompleteRead" => (exc.data = buf /\ buf # <<>> /\ rv = <<>>)
            /\ exc.type = "DelimiterNotFound" => (exc.data = buf /\ Len(buf) >= max_size))
    /\ [][(pc = "receive_delimited_chunks_next" /\ pc' # pc) =>
            IF exc.type = "none"
            THEN yielded' = Append(yielded, result) /\ pc' = "recv_check"
            ELSE /\ pc' = "done"
                 /\ yielded' = yielded
                 /\ exc' = (IF exc = Exc("IncompleteRead", <<>>) THEN NoExc ELSE exc)]_vars

C14_Witness ==
    /\ op = "receive_delimited_chunks" /\ pc = "done" /\ exc.type = "none"
    /\ Len(yielded) >= 2
    /\ yielded[1] # <<>>

\* C15: accept_connections ends only when the listening socket is seen
\* closed; the failure of one accept() (a failed TLS upgrade of that
\* connection) does not end it.
C15_EndsOnlyWhenListenerClosed ==
    (op = "accept_connections" /\ pc = "done"
     /\ exc.type \notin {"Cancelled", "BlockingIOError"})
    => listener_closed

\* C16: in every close, also on the listener's failure path, notify_close
\* has completed before the handle is released, the handle is never
\* released without it, and the handle released is the one current at that
\* time.
C16_NotifyBeforeRelease ==
    /\ [](released => (notified /\ closed_handle = handle))
    /\ [][(~released /\ released') =>
             /\ pc = "close_release"
             /\ notified
             /\ closed_handle' = handle
             /\ handle' = handle]_vars

C16_Witness ==
    /\ op \in {"server_accept", "accept_connections"}
    /\ pc = "done"
    /\ released
    /\ closed_handle = "tls"

\* the suspensions of recv, recv_into, send, sendall and start_tls, by the
\* hook awaited and by the direction of the operation
ReadWaits == {"recv_wait_r", "recv_into_wait_r", "send_wait_r", "sendall_wait_r", "tls_wait_r"}
WriteWaits == {"recv_wait_w", "recv_into_wait_w", "send_wait_w", "sendall_wait_w", "tls_wait_w"}
RecvSide == {"recv_wait_r", "recv_wait_w", "recv_into_wait_r", "recv_into_wait_w"}
SendSide == {"send_wait_r", "send_wait_w", "sendall_wait_r", "sendall_wait_w"}
Transient == {"BlockingIOError", "SSLWantReadError", "SSLWantWriteError"}

\* the socket call of each loop, the waits it may suspend in and the point
\* the loop resumes at
LoopCalls == {"recv_call", "recv_into_call", "send_call", "sendall_send", "tls_handshake"}
LoopWaits(c) ==
    CASE c = "recv_call" -> {"recv_wait_r", "recv_wait_w"}
      [] c = "recv_into_call" -> {"recv_into_wait_r", "recv_into_wait_w"}
      [] c = "send_call" -> {"send_wait_r", "send_wait_w"}
      [] c = "sendall_send" -> {"sendall_wait_r", "sendall_wait_w"}
      [] c = "tls_handshake" -> {"tls_wait_r", "tls_wait_w"}
LoopHead(c) ==
    CASE c = "recv_call" -> "recv_check"
      [] c = "recv_into_call" -> "recv_into_check"
      [] c = "send_call" -> "send_check"
      [] c = "sendall_send" -> "sendall_check"
      [] c = "tls_handshake" -> "tls_handshake"

\* C17: the hook awaited is fixed by the signal and the direction (read
\* side: would-block and needs-more-input on read-readiness, needs-to-flush
\* on write-readiness; send side: would-block and needs-to-flush on
\* write-readiness, needs-more-input on read-readiness; start_tls: by the
\* signal alone), every transient signal suspends, and a wait that returns
\* leads back to the same socket call with the same arguments, any number
\* of times.
C17_HookBySignalAndDirection ==
    /\ [](pc \in ReadWaits \cup WriteWaits =>
            /\ sig \in Transient
            /\ sig = "BlockingIOError" => pc \in RecvSide \cup SendSide
            /\ pc \in ReadWaits <=> \/ sig = "SSLWantReadError"
                                    \/ sig = "BlockingIOError" /\ pc \in RecvSide
            /\ pc \in WriteWaits <=> \/ sig = "SSLWantWriteError"
                                     \/ sig = "BlockingIOError" /\ pc \in SendSide)
    /\ [][\A c \in LoopCalls :
            /\ (pc = c /\ pc' # pc /\ sig' \in Transient) => pc' \in LoopWaits(c)
            /\ (pc \in LoopWaits(c) /\ pc' # pc /\ exc' = exc) =>
                    /\ pc' = LoopHead(c)
                    /\ <<handle, size, flags, data, buf, view>>' =
                       <<handle, size, flags, data, buf, view>>
            /\ (pc = LoopHead(c) /\ pc' # pc /\ exc' = exc /\ c # "tls_handshake") =>
                    /\ pc' = c
                    /\ <<handle, size, flags, data, buf, view>>' =
                       <<handle, size, flags, data, buf, view>>]_vars

\* a retry in progress: the call is about to be made again after a wait
C17_Witness ==
    \/ pc = "recv_call" /\ sig = "SSLWantWriteError"
    \/ pc = "tls_handshake" /\ sig = "SSLWantReadError"

\* C18: connect suspends on write-readiness at most once and only when the
\* connect call reported that it is in progress; after immediate completion
\* or after the wait it reads the pending error code, fails with an OSError
\* carrying exactly that code if and only if the code is nonzero, and
\* returns normally otherwise.
C18_Connect ==
    /\ [](op = "connect" =>
            /\ pc = "connect_wait" => sig = "BlockingIOError"
            /\ (pc = "done" /\ error # -1) =>
                    /\ error # 0 <=> exc = Exc("OSError", <<error>>)
                    /\ error = 0 <=> exc = NoExc
            /\ (pc = "done" /\ exc = NoExc) => error = 0)
    /\ [][op = "connect" =>
            /\ (pc' = "connect_wait" /\ pc # pc') =>
                    pc = "connect_call" /\ sig' = "BlockingIOError"
            /\ (pc' = "connect_call" /\ pc # pc') => pc = "connect_check"
            /\ pc # pc' => pc' # "connect_check"
            /\ (pc = "connect_call" /\ sig' = "BlockingIOError") => pc' = "connect_wait"
            /\ (pc = "connect_call" /\ pc' = "done" /\ exc' = exc) => error' = 0
            /\ (pc = "connect_wait" /\ pc # pc' /\ exc' = exc) => pc' = "connect_so_error"
            /\ (pc = "connect_so_error" /\ pc # pc') => pc' = "done" /\ error' # -1]_vars

C18_Witness ==
    /\ op = "connect"
    /\ pc = "done"
    /\ sig = "BlockingIOError"
    /\ error = 111
    /\ exc = Exc("OSError", <<111>>)

Handed ==
    CASE exc.type = "none" /\ op = "receive_until" -> result \o delimiter
      [] exc.type = "none" /\ op # "receive_until" -> result
      [] exc.type \in {"IncompleteRead", "DelimiterNotFound"} -> exc.data
      [] OTHER -> <<>>

\* C20: when receive_until or receive_exactly ends, however it ends
\* (Cancelled included), the bytes it has consumed from the stream are
\* exactly the bytes handed to the caller.
C20_ByteConservation ==
    (op \in {"receive_until", "receive_exactly"} /\ pc = "done") => taken = Handed

====
